---- MODULE Spec2Model ----
(***************************************************************************)
(* Model of the GetInfoStatus HTTP handler of IntegrationLayer-TEST        *)
(* (src/InfoStatus.py): identifier resolution, connection-string assembly, *)
(* the thread-pool fetch against the data store, and the response.         *)
(***************************************************************************)
EXTENDS Integers, Sequences, FiniteSets, TLC

(* ----------------------------- bounds ---------------------------------- *)
MaxRequests == 2      \* requests handled one after the other
MaxRows     == 2      \* rows held by traceability_log and h_part_status together
MaxTs       == 2      \* distinct status timestamps 1..MaxTs

(* ------------------------- Python values ------------------------------- *)
\* A Python value as the handler sees it: None, a str or an int.
None     == [kind |-> "none", val |-> ""]
PyStr(s) == [kind |-> "str", val |-> s]
PyInt(s) == [kind |-> "int", val |-> s]

\* Python truth value, as tested by "if not part_id".
Truthy(v) ==
    CASE v.kind = "none" -> FALSE
      [] v.kind = "str"  -> v.val # ""
      [] v.kind = "int"  -> v.val # "0"

Parts == {"P1", "P2"}

\* req.params: the query-string part_id is missing (None) or a string.
QueryParams == {None, PyStr(""), PyStr("P1")}

\* The values a JSON body can carry under "part_id".
JsonScalars == {None, PyStr(""), PyStr("P2"), PyInt("7")}

\* Request bodies: no body, malformed JSON, valid JSON that is not an object,
\* and JSON objects with and without the key "part_id".
Bodies ==
    {[shape |-> s, keys |-> {}, part_id |-> None] : s \in {"absent", "malformed", "array"}}
    \cup {[shape |-> "object", keys |-> {"other"}, part_id |-> None]}
    \cup {[shape |-> "object", keys |-> {"part_id"}, part_id |-> v] : v \in JsonScalars}

\* req.get_json() raises ValueError when the body is absent or not JSON.
GetJsonRaises(b) == b.shape \in {"absent", "malformed"}

\* Only a dict has .get; any other parsed JSON value raises AttributeError.
HasGet(b) == b.shape = "object"

\* req_body.get('part_id')
BodyPartIdWrongKey(b) == IF "other" \in b.keys THEN b.part_id ELSE None
BodyPartId(b) == IF "part_id" \in b.keys THEN b.part_id ELSE None

\* Lines 18-28: the identifier after both extraction attempts, whether
\* get_json was called, and the exception that left the handler, if any.
ResolveBodyFirst(q, b) ==
    IF ~GetJsonRaises(b) /\ HasGet(b) /\ Truthy(BodyPartId(b))
    THEN [part_id |-> BodyPartId(b), body_read |-> TRUE, escaped |-> "none"]
    ELSE [part_id |-> q, body_read |-> TRUE, escaped |-> "none"]
ResolvePartId(q, b) ==
    IF Truthy(q) THEN [part_id |-> q, body_read |-> FALSE, escaped |-> "none"]
    ELSE IF GetJsonRaises(b) THEN [part_id |-> q, body_read |-> TRUE, escaped |-> "none"]
    ELSE IF ~HasGet(b) THEN [part_id |-> q, body_read |-> TRUE, escaped |-> "AttributeError"]
    ELSE [part_id |-> BodyPartId(b), body_read |-> TRUE, escaped |-> "none"]

\* Line 30: "if not part_id" rejects the request.
NeverRejected(pid) == FALSE
Rejected(pid) == ~Truthy(pid)

(* --------------------------- responses --------------------------------- *)
NoResponse == [status |-> 0, mimetype |-> "", body |-> [fmt |-> "none"]]

\* Lines 32-35: plain-text 400.
MissingIdText == "Please pass part_id in the query string or request body"
BadRequest == [status |-> 400, mimetype |-> "", body |-> [fmt |-> "text", text |-> MissingIdText]]

\* json.dumps(obj): a JSON document; a dict is a record of its keys.
JsonDumps(obj) == [fmt |-> "json", doc |-> obj]

\* Lines 43-49: the response to a failure of get_connection_string.
ConfigErrorText == "Database configuration error"
ConfigErrorLeaky(e) == [status |-> 500, mimetype |-> "application/json",
                        body |-> JsonDumps([error |-> e])]
ConfigError(e) == [status |-> 500, mimetype |-> "application/json",
                   body |-> JsonDumps([error |-> ConfigErrorText])]

(* --------------------------- environment ------------------------------- *)
EnvNames == {"AZURE_SQL_CONNECTION_STRING", "AZURE_SQL_DB_USER",
             "AZURE_SQL_DB_PASSWORD", "AZURE_SQL_DRIVER"}

\* Process environments: every variable set, or the password missing.
EnvChoices == {[n \in EnvNames |-> "set"],
               [n \in EnvNames |-> IF n = "AZURE_SQL_DB_PASSWORD" THEN "None" ELSE "set"]}

NoConnStr == [Driver |-> "", Server |-> "", Database |-> "", Uid |-> "", Pwd |-> "",
              Encrypt |-> "", TrustServerCertificate |-> "", ConnectionTimeout |-> 0]

\* Lines 81-95: os.getenv yields None for an unset variable and the f-string
\* renders it as "None"; nothing here checks for it.
get_connection_string(e) ==
    [Driver |-> e["AZURE_SQL_DRIVER"], Server |-> e["AZURE_SQL_CONNECTION_STRING"],
     Database |-> "Traceability_TEST", Uid |-> e["AZURE_SQL_DB_USER"],
     Pwd |-> e["AZURE_SQL_DB_PASSWORD"], Encrypt |-> "yes",
     TrustServerCertificate |-> "no", ConnectionTimeout |-> 60]

\* A descriptor the driver can use at all: no field rendered from None.
Usable(cs) == "None" \notin {cs.Driver, cs.Server, cs.Uid, cs.Pwd}

(* --------------------------- data store -------------------------------- *)
NULL   == "NULL"      \* SQL NULL / Python None in a column
NullTs == 0           \* NULL in a timestamp column

TlRows  == [part_id : Parts, status_timestamp : 1..MaxTs, station_id : {"S1"},
            status : {"IN"}, employee_id : {"E1"}, shipping_id : {"G1"}]
HpsRows == [part_id : Parts, status_timestamp : 1..MaxTs, station_id : {"S1"},
            status : {"OUT"}, employee_id : {"E2"}, shipping_id : {NULL}]
CstRows == [station_id : {"S1"}, station_name : {"Press"}]

NullRow == [part_id |-> NULL, status_timestamp |-> NullTs, station_id |-> NULL,
            status |-> NULL, employee_id |-> NULL, shipping_id |-> NULL]
NullCst == [station_id |-> NULL, station_name |-> NULL]

\* The contents the three tables can have when the query runs.
Databases ==
    {d \in [tl : {x \in SUBSET TlRows : Cardinality(x) <= MaxRows},
            hps : {x \in SUBSET HpsRows : Cardinality(x) <= MaxRows},
            cst : SUBSET CstRows] :
        Cardinality(d.tl) + Cardinality(d.hps) <= MaxRows}

Coalesce(a, b)   == IF a # NULL THEN a ELSE b
CoalesceTs(a, b) == IF a # NullTs THEN a ELSE b

\* Lines 112-115: tl FULL OUTER JOIN hps ON part_id and status_timestamp.
JoinOn(t, h) == t.part_id = h.part_id /\ t.status_timestamp = h.status_timestamp
InnerJoin(tl, hps) ==
    {[tl |-> p[1], hps |-> p[2]] : p \in {q \in tl \X hps : JoinOn(q[1], q[2])}}
FullOuterJoin(tl, hps) ==
    UNION {{[tl |-> t, hps |-> h] : h \in {x \in hps : JoinOn(t, x)}} : t \in tl}
    \cup {[tl |-> t, hps |-> NullRow] : t \in {x \in tl : \A h \in hps : ~JoinOn(x, h)}}
    \cup {[tl |-> NullRow, hps |-> h] : h \in {x \in hps : \A t \in tl : ~JoinOn(t, x)}}

\* Lines 116-117: LEFT JOIN c_station ON station_id = coalesce(tl, hps).
StationOf(j) == Coalesce(j.tl.station_id, j.hps.station_id)
LeftJoinStation(J, cst) ==
    UNION {{[tl |-> j.tl, hps |-> j.hps, cst |-> s] :
                s \in {x \in cst : x.station_id = StationOf(j)}} : j \in J}
    \cup {[tl |-> j.tl, hps |-> j.hps, cst |-> NullCst] :
                j \in {x \in J : \A s \in cst : s.station_id # StationOf(x)}}

\* Line 118: WHERE coalesce(tl.part_id, hps.part_id) = ?
Where(J, p) == {j \in J : Coalesce(j.tl.part_id, j.hps.part_id) = p}

\* Line 119: the sort key.
SortKey(j) == CoalesceTs(j.tl.status_timestamp, j.hps.status_timestamp)

\* Rows with equal keys come in the order the plan produces them: "tl" puts
\* rows with a transaction-log side first among equals, "hps" the others.
Ties == {"tl", "hps"}
PickTie(S, tie) ==
    LET pref == {j \in S : (tie = "tl") = (j.tl # NullRow)}
    IN  IF pref # {} THEN CHOOSE j \in pref : TRUE ELSE CHOOSE j \in S : TRUE

\* Line 119: ORDER BY ... DESC.
RECURSIVE OrderByAsc(_, _)
OrderByAsc(S, tie) ==
    IF S = {} THEN <<>>
    ELSE LET j == PickTie({x \in S : \A y \in S : SortKey(x) <= SortKey(y)}, tie)
         IN  <<j>> \o OrderByAsc(S \ {j}, tie)
RECURSIVE OrderByDesc(_, _)
OrderByDesc(S, tie) ==
    IF S = {} THEN <<>>
    ELSE LET j == PickTie({x \in S : \A y \in S : SortKey(y) <= SortKey(x)}, tie)
         IN  <<j>> \o OrderByDesc(S \ {j}, tie)

\* Lines 103-111: the select list, one tuple per joined row (row[0]..row[7]
\* are positions 1..8).
SelectList(j) ==
    << Coalesce(j.tl.part_id, j.hps.part_id),
       j.cst.station_name,
       Coalesce(j.tl.status, j.hps.status),
       CoalesceTs(j.tl.status_timestamp, j.hps.status_timestamp),
       Coalesce(j.tl.employee_id, j.hps.employee_id),
       Coalesce(j.tl.shipping_id, j.hps.shipping_id),
       j.hps.status,
       IF j.hps.status # NULL THEN "zmena statusu" ELSE NULL >>

\* Lines 102-122: the result set of info_query for a string parameter p.
InfoQuery(d, p, tie) ==
    LET ordered == OrderByDesc(Where(LeftJoinStation(FullOuterJoin(d.tl, d.hps), d.cst), p), tie)
    IN  [i \in DOMAIN ordered |-> SelectList(ordered[i])]

\* Lines 127-139: one dict per row.
RowToDict(row) ==
    [part_id |-> row[1], station_id |-> row[2], rezim_cteni |-> row[3],
     timestamp |-> row[4], employee_id |-> row[5], gitterbox_id |-> row[6],
     history_status |-> row[7], zmena |-> row[8]]

\* Lines 124-141: what fetch_part_info returns for the fetched rows.
NoPartInfo == [none |-> TRUE]
PartInfo(rs) ==
    IF rs = <<>> THEN NoPartInfo
    ELSE [part_history |-> [i \in DOMAIN rs |-> RowToDict(rs[i])]]

\* Error texts str(e) of the exceptions the driver raises.
ConnectErrText == "('08001', 'connection failed')"
QueryErrText   == "('42000', 'query failed')"
ConvertErrText == "('22018', 'conversion failed')"
ConcatErrText  == "can only concatenate str (not \"int\") to str"

(* --------------------- process_request and the response ---------------- *)
NoFuture == [state |-> "none", value |-> NoPartInfo, exc |-> ""]
Returned(v) == [state |-> "result", value |-> v, exc |-> ""]
Raised(text) == [state |-> "exception", value |-> NoPartInfo, exc |-> text]

\* Lines 151-163: the (response_data, status) pair for the future's outcome.
\* The message is built with "+", which raises TypeError unless part_id is
\* a str; that exception is caught by the same handler as the fetch's.
ProcessRequestGeneric(fut, pid) ==
    IF fut.state = "exception" THEN [data |-> [error |-> "Internal error"], status |-> 500]
    ELSE IF fut.value # NoPartInfo THEN [data |-> fut.value, status |-> 200]
    ELSE IF pid.kind = "str"
         THEN [data |-> [message |-> "No record found for part ID: " \o pid.val], status |-> 200]
         ELSE [data |-> [error |-> ConcatErrText], status |-> 500]
ProcessRequestResult(fut, pid) ==
    IF fut.state = "exception" THEN [data |-> [error |-> fut.exc], status |-> 500]
    ELSE IF fut.value # NoPartInfo THEN [data |-> fut.value, status |-> 200]
    ELSE IF pid.kind = "str"
         THEN [data |-> [message |-> "No record found for part ID: " \o pid.val], status |-> 200]
         ELSE [data |-> [error |-> ConcatErrText], status |-> 500]

\* Line 64: json.dumps(response_data, default=str) renders the timestamps,
\* which JSON cannot carry, with str(); None becomes null.
JsonDumpsDefaultStr(obj) ==
    IF "part_history" \in DOMAIN obj
    THEN [fmt |-> "json",
          doc |-> [part_history |->
                     [i \in DOMAIN obj.part_history |->
                        [obj.part_history[i] EXCEPT !.timestamp = ToString(@)]]]]
    ELSE [fmt |-> "json", doc |-> obj]

\* Lines 57-79: the HTTP response for what process_request returned.
HandlerResponse(data, status) ==
    IF status # 200
    THEN [status |-> status, mimetype |-> "application/json", body |-> JsonDumps(data)]
    ELSE [status |-> 200, mimetype |-> "application/json", body |-> JsonDumpsDefaultStr(data)]

(* ----------------------- connections and cursors ----------------------- *)
\* Leaving a "with" block over a pyodbc connection or cursor commits or
\* rolls back; the object stays open.
WithExit(open, c) == open

\* The object is closed when it is deallocated.
Dealloc(open, c) == open \ {c}

(* ------------------------------ state ---------------------------------- *)
VARIABLES
    pc,             \* where the handler is: "idle" between requests
    reqNo,          \* number of requests received so far
    env,            \* the process environment
    req,            \* the request being handled: query-string part_id and body
    part_id,        \* InfoStatus.part_id
    escaped,        \* exception that left InfoStatus, or "none"
    conn_str,       \* InfoStatus.conn_str
    trace,          \* calls made for the current request, in order
    conns,          \* open data-store connections, named by the request that opened them
    cursors,        \* open cursors, named likewise
    db,             \* table contents the result set was fetched from
    future,         \* part_info_future
    response_data,  \* InfoStatus.response_data
    status_code,    \* InfoStatus.status_code
    response        \* the HttpResponse returned for the current request

vars == <<pc, reqNo, env, req, part_id, escaped, conn_str, trace, conns, cursors,
          db, future, response_data, status_code, response>>

EmptyDb == [tl |-> {}, hps |-> {}, cst |-> {}]
NoRequest == [query |-> None, body |-> [shape |-> "absent", keys |-> {}, part_id |-> None]]
NoData == [none |-> TRUE]

Call(op, arg) == [op |-> op, arg |-> arg]
Ops(t) == {t[i].op : i \in DOMAIN t}

Init ==
    /\ pc = "idle"
    /\ reqNo = 0
    /\ env \in EnvChoices
    /\ req = NoRequest
    /\ part_id = None
    /\ escaped = "none"
    /\ conn_str = NoConnStr
    /\ trace = <<>>
    /\ conns = {}
    /\ cursors = {}
    /\ db = EmptyDb
    /\ future = NoFuture
    /\ response_data = NoData
    /\ status_code = 0
    /\ response = NoResponse

\* InfoStatus, lines 16-37: resolve the identifier; reject with 400 when it
\* is missing; an AttributeError from req_body.get is not caught anywhere.
Receive(q, b) ==
    /\ pc = "idle"
    /\ reqNo < MaxRequests
    /\ LET r == ResolvePartId(q, b) IN
        /\ part_id' = r.part_id
        /\ escaped' = r.escaped
        /\ trace' = IF r.body_read THEN <<Call("get_json", None)>> ELSE <<>>
        /\ response' = IF r.escaped = "none" /\ Rejected(r.part_id) THEN BadRequest ELSE NoResponse
        /\ pc' = IF r.escaped = "none" /\ ~Rejected(r.part_id) THEN "config" ELSE "idle"
    /\ reqNo' = reqNo + 1
    /\ req' = [query |-> q, body |-> b]
    /\ conn_str' = NoConnStr
    /\ db' = EmptyDb
    /\ future' = NoFuture
    /\ response_data' = NoData
    /\ status_code' = 0
    /\ UNCHANGED <<env, conns, cursors>>

\* InfoStatus, lines 39-49, calling get_connection_string (lines 81-95).
\* The assembly only reads the environment and formats a string; a failure
\* inside it (raises = TRUE) is a fault of the runtime, which the handler
\* answers with the generic configuration error.
GetConnectionString(raises) ==
    /\ pc = "config"
    /\ trace' = Append(trace, Call("get_connection_string", None))
    /\ IF raises
       THEN /\ response' = ConfigError("assembly failed")
            /\ pc' = "idle"
            /\ UNCHANGED conn_str
       ELSE /\ conn_str' = get_connection_string(env)
            /\ pc' = "process"
            /\ UNCHANGED response
    /\ UNCHANGED <<reqNo, env, req, part_id, escaped, conns, cursors, db,
                   future, response_data, status_code>>

\* Line 54 and process_request, lines 145-148: the fetch is submitted to the
\* pool with the resolved identifier.
Submit ==
    /\ pc = "process"
    /\ trace' = trace \o <<Call("process_request", part_id), Call("fetch_part_info", part_id)>>
    /\ pc' = "connect"
    /\ UNCHANGED <<reqNo, env, req, part_id, escaped, conn_str, conns, cursors, db,
                   future, response_data, status_code, response>>

\* fetch_part_info, line 99: pyodbc.connect. It fails whenever the
\* descriptor is unusable and may fail otherwise.
Connect(fails) ==
    /\ pc = "connect"
    /\ trace' = Append(trace, Call("connect", None))
    /\ IF fails \/ ~Usable(conn_str)
       THEN /\ future' = Raised(ConnectErrText)
            /\ pc' = "result"
            /\ UNCHANGED conns
       ELSE /\ conns' = conns \cup {reqNo}
            /\ pc' = "cursor"
            /\ UNCHANGED future
    /\ UNCHANGED <<reqNo, env, req, part_id, escaped, conn_str, cursors, db,
                   response_data, status_code, response>>

\* fetch_part_info, line 100: conn.cursor().
OpenCursor ==
    /\ pc = "cursor"
    /\ cursors' = cursors \cup {reqNo}
    /\ trace' = Append(trace, Call("cursor", None))
    /\ pc' = "execute"
    /\ UNCHANGED <<reqNo, env, req, part_id, escaped, conn_str, conns, db,
                   future, response_data, status_code, response>>

\* fetch_part_info, lines 101-121: cursor.execute with part_id bound as the
\* one parameter. An exception leaves both "with" blocks and is stored in
\* the future; the frame, and so the connection and the cursor, stay
\* referenced by its traceback.
Execute(fails) ==
    /\ pc = "execute"
    /\ trace' = Append(trace, Call("execute", part_id))
    /\ IF fails
       THEN /\ future' = Raised(QueryErrText)
            /\ cursors' = WithExit(cursors, reqNo)
            /\ conns' = WithExit(conns, reqNo)
            /\ pc' = "result"
       ELSE /\ pc' = "fetchall"
            /\ UNCHANGED <<future, conns, cursors>>
    /\ UNCHANGED <<reqNo, env, req, part_id, escaped, conn_str, db,
                   response_data, status_code, response>>

\* fetch_part_info, lines 122-141: fetchall, against whatever the tables
\* hold, then the mapping and the return. An int parameter makes the server
\* convert the part_id column, which fails on the first row; a failure for
\* any other reason (fails = TRUE) does not depend on the tables. On return
\* the frame is gone and the connection and cursor, no longer referenced,
\* are deallocated; on an exception they stay referenced by the traceback
\* as in Execute.
FetchAll(d, tie, fails) ==
    /\ pc = "fetchall"
    /\ fails => d = EmptyDb
    /\ db' = d
    /\ trace' = Append(trace, Call("fetchall", None))
    /\ IF fails \/ (part_id.kind = "int" /\ d.tl \cup d.hps # {})
       THEN /\ future' = Raised(IF fails THEN QueryErrText ELSE ConvertErrText)
            /\ cursors' = WithExit(cursors, reqNo)
            /\ conns' = WithExit(conns, reqNo)
       ELSE /\ LET rows == IF part_id.kind = "str" THEN InfoQuery(d, part_id.val, tie) ELSE <<>>
               IN  future' = Returned(PartInfo(rows))
            /\ cursors' = Dealloc(WithExit(cursors, reqNo), reqNo)
            /\ conns' = Dealloc(WithExit(conns, reqNo), reqNo)
    /\ pc' = "result"
    /\ UNCHANGED <<reqNo, env, req, part_id, escaped, conn_str,
                   response_data, status_code, response>>

\* process_request, lines 151-163: future.result() and the returned pair.
ProcessResult ==
    /\ pc = "result"
    /\ LET r == ProcessRequestResult(future, part_id) IN
        /\ response_data' = r.data
        /\ status_code' = r.status
    /\ trace' = Append(trace, Call("result", None))
    /\ pc' = "respond"
    /\ UNCHANGED <<reqNo, env, req, part_id, escaped, conn_str, conns, cursors, db,
                   future, response>>

\* InfoStatus, lines 55-79: build the response from the pair.
Respond ==
    /\ pc = "respond"
    /\ response' = HandlerResponse(response_data, status_code)
    /\ pc' = "idle"
    /\ UNCHANGED <<reqNo, env, req, part_id, escaped, conn_str, trace, conns, cursors,
                   db, future, response_data, status_code>>

\* The garbage collector frees the traceback of a failed fetch once
\* process_request has returned, and with it the connection and cursor.
Finalize(c) ==
    /\ c \in conns \cup cursors
    /\ c < reqNo \/ pc \in {"respond", "idle"}
    /\ conns' = Dealloc(conns, c)
    /\ cursors' = Dealloc(cursors, c)
    /\ UNCHANGED <<pc, reqNo, env, req, part_id, escaped, conn_str, trace, db,
                   future, response_data, status_code, response>>

Next ==
    \/ \E q \in QueryParams, b \in Bodies : Receive(q, b)
    \/ \E raises \in BOOLEAN : GetConnectionString(raises)
    \/ Submit
    \/ \E fails \in BOOLEAN : Connect(fails)
    \/ OpenCursor
    \/ \E fails \in BOOLEAN : Execute(fails)
    \/ \E d \in Databases, tie \in Ties, fails \in BOOLEAN : FetchAll(d, tie, fails)
    \/ ProcessResult
    \/ Respond
    \/ \E c \in 1..MaxRequests : Finalize(c)

Spec == Init /\ [][Next]_vars

(* ============================ properties =============================== *)
Done == pc = "idle" /\ reqNo > 0
LookupOps == {"process_request", "fetch_part_info", "execute"}
LookupArgs == {trace[i].arg : i \in {k \in DOMAIN trace : trace[k].op \in LookupOps}}
NoRecordPrefix == "No record found for part ID: "
IsJson(r) == r.body.fmt = "json"
Count(op) == Cardinality({i \in DOMAIN trace : trace[i].op = op})

\* C1: a non-empty query-string part_id is the identifier of the request and
\* of every lookup call, whatever the body holds, and get_json is never
\* called.
C1_QueryPrecedence ==
    (reqNo > 0 /\ Truthy(req.query)) =>
        /\ part_id = req.query
        /\ "get_json" \notin Ops(trace)
        /\ LookupArgs \subseteq {req.query}
        /\ escaped = "none"
        /\ response.status # 400

C1_Witness ==
    /\ Done
    /\ req.query = PyStr("P1")
    /\ req.body.part_id = PyStr("P2")
    /\ "execute" \in Ops(trace)
    /\ response.status = 200

\* C2 as stated: with no query-string part_id, whenever the body is a JSON
\* object containing part_id, that value is the identifier used for the
\* lookup (the request is not turned away).
C2_Original ==
    (Done /\ ~Truthy(req.query) /\ "part_id" \in req.body.keys) =>
        /\ part_id = req.body.part_id
        /\ response.status # 400
        /\ LookupArgs \subseteq {req.body.part_id}

\* C2 amended: with no query-string part_id, a non-empty part_id of a JSON
\* object body is the identifier resolved, passed to every lookup call and
\* named in the no-record message; the request is not turned away.
C2_BodyValueUsed ==
    (reqNo > 0 /\ ~Truthy(req.query) /\ "part_id" \in req.body.keys
        /\ Truthy(req.body.part_id)) =>
        /\ part_id = req.body.part_id
        /\ escaped = "none"
        /\ response.status # 400
        /\ LookupArgs \subseteq {req.body.part_id}
        /\ ("execute" \in Ops(trace)) => LookupArgs = {req.body.part_id}
        /\ (IsJson(response) /\ "message" \in DOMAIN response.body.doc) =>
                response.body.doc.message = NoRecordPrefix \o req.body.part_id.val

C2_Witness ==
    /\ Done
    /\ ~Truthy(req.query)
    /\ req.body.part_id = PyStr("P2")
    /\ [op |-> "execute", arg |-> PyStr("P2")] \in {trace[i] : i \in DOMAIN trace}
    /\ response.status = 200
    /\ "part_history" \in DOMAIN response.body.doc
    /\ response.body.doc.part_history[1].part_id = "P2"

\* C3: a request from which no non-empty part_id can be resolved (body
\* absent, malformed, or valid JSON of any shape without a usable part_id)
\* ends in the plain-text 400 and no exception leaves the handler.
Unresolvable(r) ==
    /\ ~Truthy(r.query)
    /\ \/ r.body.shape # "object"
       \/ "part_id" \notin r.body.keys
       \/ ~Truthy(r.body.part_id)
C3_Rejected400 ==
    (Done /\ Unresolvable(req)) =>
        /\ escaped = "none"
        /\ response.status = 400
        /\ response.body = [fmt |-> "text", text |-> MissingIdText]

\* C4: when the fetch returns None the response is 200 with the message
\* "No record found for part ID: <id>" for the resolved identifier, from
\* whichever source it came.
C4_NoRecordMessage ==
    (Done /\ future.state = "result" /\ future.value = NoPartInfo) =>
        /\ response.status = 200
        /\ response.body = [fmt |-> "json", doc |-> [message |-> NoRecordPrefix \o part_id.val]]

\* C5: for an identifier with N >= 1 rows in the join of the two logs, the
\* 200 response carries exactly N part_history entries, all for that
\* identifier, most recent timestamp first. N is counted from the tables:
\* pairs of rows equal on (part_id, status_timestamp) count once, every
\* other row of either log once; c_station has one row per station_id.
Matching(d, p) ==
    LET T == {t \in d.tl : t.part_id = p}
        H == {h \in d.hps : h.part_id = p}
    IN  Cardinality({q \in T \X H : q[1].status_timestamp = q[2].status_timestamp})
        + Cardinality({t \in T : \A h \in H : h.status_timestamp # t.status_timestamp})
        + Cardinality({h \in H : \A t \in T : h.status_timestamp # t.status_timestamp})
ParseTs(text) == CHOOSE n \in 0..MaxTs : ToString(n) = text
C5_HistoryCountAndOrder ==
    (Done /\ future.state = "result" /\ part_id.kind = "str"
        /\ Matching(db, part_id.val) >= 1) =>
        /\ response.status = 200
        /\ IsJson(response)
        /\ "part_history" \in DOMAIN response.body.doc
        /\ LET h == response.body.doc.part_history IN
            /\ Len(h) = Matching(db, part_id.val)
            /\ \A i \in DOMAIN h : h[i].part_id = part_id.val
            /\ \A i \in DOMAIN h : \A k \in DOMAIN h :
                    i < k => ParseTs(h[i].timestamp) >= ParseTs(h[k].timestamp)

C5_Witness ==
    /\ Done
    /\ response.status = 200
    /\ "part_history" \in DOMAIN response.body.doc
    /\ Cardinality(db.tl) = 1
    /\ Cardinality(db.hps) = 1
    /\ Len(response.body.doc.part_history) = 2
    /\ response.body.doc.part_history[1].timestamp = "2"
    /\ response.body.doc.part_history[2].timestamp = "1"
    /\ response.body.doc.part_history[1].history_status = NULL
    /\ response.body.doc.part_history[2].zmena = "zmena statusu"

\* C6: when the fetch raises, nothing escapes; the response is 500 with the
\* JSON body {"error": <text of that exception>}, and the fetch was called
\* once.
C6_FetchErrorIs500 ==
    /\ (future.state = "exception" /\ pc = "respond") =>
            /\ status_code = 500
            /\ response_data = [error |-> future.exc]
    /\ (future.state = "exception" /\ Done) =>
            /\ escaped = "none"
            /\ response = [status |-> 500, mimetype |-> "application/json",
                           body |-> [fmt |-> "json", doc |-> [error |-> future.exc]]]
            /\ future.exc \in {ConnectErrText, QueryErrText, ConvertErrText}
    /\ Count("fetch_part_info") <= 1
    /\ Count("connect") <= 1
    /\ Count("execute") <= 1

C6_Witness ==
    /\ Done
    /\ future = Raised(ConnectErrText)
    /\ Usable(conn_str)
    /\ Count("fetch_part_info") = 1
    /\ response.status = 500
    /\ response.body.doc.error = ConnectErrText

\* C7: when get_connection_string raises, the response is 500 with exactly
\* {"error": "Database configuration error"}, process_request and
\* fetch_part_info are not called, and no data-access failure response has
\* that body.
ConfigFailed == Done /\ trace # <<>> /\ trace[Len(trace)].op = "get_connection_string"
C7_ConfigErrorGeneric ==
    /\ ConfigFailed =>
            /\ response = [status |-> 500, mimetype |-> "application/json",
                           body |-> [fmt |-> "json", doc |-> [error |-> ConfigErrorText]]]
            /\ Ops(trace) \cap {"process_request", "fetch_part_info", "connect"} = {}
            /\ conn_str = NoConnStr
            /\ future = NoFuture
            /\ escaped = "none"
    /\ (Done /\ future.state = "exception") => response.body.doc.error # ConfigErrorText

C7_Witness ==
    /\ ConfigFailed
    /\ response.status = 500
    /\ Truthy(part_id)

\* C8: once fetch_part_info has handed control back, by return or by
\* exception, the connection and the cursor it opened are closed; so none
\* stays open after a request or into a later one.
C8_ReleasedOnEveryExit ==
    pc \in {"result", "respond", "idle"} => (conns = {} /\ cursors = {})

\* C9: a request answered with 400 made no call beyond get_json, and the
\* connection string, the pool and the connection are reached only with a
\* non-empty identifier.
C9_RejectedBeforeDataStore ==
    /\ (reqNo > 0 /\ response.status = 400) =>
            /\ Ops(trace) \subseteq {"get_json"}
            /\ conn_str = NoConnStr
            /\ reqNo \notin conns \cup cursors
            /\ db = EmptyDb
    /\ (Ops(trace) \cap {"get_connection_string", "process_request", "fetch_part_info",
                         "connect", "cursor", "execute"} # {}
            \/ reqNo \in conns \cup cursors
            \/ pc # "idle") =>
            /\ Truthy(part_id)
            /\ response.status # 400

C9_Witness ==
    /\ Done
    /\ response = BadRequest
    /\ req.body.part_id = PyStr("")
    /\ "part_id" \in req.body.keys
    /\ trace = <<Call("get_json", None)>>

\* C10: every invocation ends with a response of status 200, 400 or 500 and
\* no exception leaves the handler.
C10_AlwaysResponds ==
    Done => (escaped = "none" /\ response.status \in {200, 400, 500})

====
